---- MODULE Spec2Model ----
(***************************************************************************)
(* A model of fcitx-utils' log category registry (log.cpp): LogCategory    *)
(* objects that register themselves with the process-wide LogRegistry,     *)
(* the rule string parser of LogRegistry::setLogRule, the per-category     *)
(* rule application, and the level queries of LogCategory.                 *)
(*                                                                         *)
(* Strings are sequences of one-character strings, so that splitting and   *)
(* integer parsing are computed character by character as the code does.   *)
(***************************************************************************)
EXTENDS Integers, Sequences, FiniteSets, TLC

\* ------------------------------------------------------------------ bounds

\* Number of client threads calling into the library.
NumThreads == 2
\* Number of distinct addresses a LogCategory object can live at.
NumSlots == 2
\* Longest rule string explored by the parser specification.
MaxLen == 5

Threads == 1..NumThreads
Slots == 1..NumSlots

\* ------------------------------------------------------------ LogLevel enum

\* The enumerators of LogLevel. They are declared in log.h, which is not among
\* the sources modelled here; the numbering follows the design description:
\* lower rank is more severe, LastLogLevel is the most verbose real level, and
\* NoLog lies below every real level, outside the validated range
\* [0, LastLogLevel].
NoLog == -1
Fatal == 0
Error == 1
Warn == 2
Info == 3
Debug == 4
LastLogLevel == Debug

LogLevels == {NoLog, Fatal, Error, Warn, Info, Debug}

\* Variant: the range validated begins at NoLog.
validateLogLevelFromNoLog(l) == l >= NoLog /\ l <= LastLogLevel

\* Variant: only the lower end of the range is validated.
validateLogLevelNoUpper(l) == l >= 0

\* bool validateLogLevel(std::underlying_type_t<LogLevel> l)
validateLogLevel(l) == l >= 0 /\ l <= LastLogLevel

\* ------------------------------------------------------------------ strings

\* Largest and smallest value of int (the result type of std::stoi).
IntMax == 2147483647
IntMin == 0 - IntMax - 1

DigitChars == <<"0", "1", "2", "3", "4", "5", "6", "7", "8", "9">>
IsDigit(c) == \E i \in 1..10 : DigitChars[i] = c
DigitVal(c) == (CHOOSE i \in 1..10 : DigitChars[i] = c) - 1
IsSpace(c) == c \in {" ", "\t", "\n", "\r", "\f"}

\* stringutils::split(str, delim): the maximal runs of characters other than
\* the delimiter, in order; empty pieces are skipped.
RECURSIVE SplitFrom(_, _, _, _)
SplitFrom(str, delim, i, cur) ==
    IF i > Len(str)
    THEN IF cur = <<>> THEN <<>> ELSE <<cur>>
    ELSE IF str[i] = delim
         THEN IF cur = <<>>
              THEN SplitFrom(str, delim, i + 1, <<>>)
              ELSE <<cur>> \o SplitFrom(str, delim, i + 1, <<>>)
         ELSE SplitFrom(str, delim, i + 1, Append(cur, str[i]))

split(str, delim) == SplitFrom(str, delim, 1, <<>>)

RECURSIVE SkipSpace(_, _)
SkipSpace(str, i) ==
    IF i <= Len(str) /\ IsSpace(str[i]) THEN SkipSpace(str, i + 1) ELSE i

\* The index just past the run of digits that starts at i.
RECURSIVE DigitsEnd(_, _)
DigitsEnd(str, i) ==
    IF i <= Len(str) /\ IsDigit(str[i]) THEN DigitsEnd(str, i + 1) ELSE i

\* The decimal value of the digits str[i..j], accumulated left to right.
RECURSIVE DigitsValue(_, _, _, _)
DigitsValue(str, i, j, acc) ==
    IF i > j THEN acc ELSE DigitsValue(str, i + 1, j, acc * 10 + DigitVal(str[i]))

\* std::stoi(str): skips leading whitespace, takes an optional sign and the
\* longest run of digits after it, and ignores whatever follows. It throws
\* std::invalid_argument when there is no digit and std::out_of_range when
\* the value does not fit an int; ok = FALSE stands for either exception.
stoi(str) ==
    LET i == SkipSpace(str, 1)
        neg == i <= Len(str) /\ str[i] = "-"
        j == IF i <= Len(str) /\ str[i] \in {"+", "-"} THEN i + 1 ELSE i
        k == DigitsEnd(str, j)
        mag == DigitsValue(str, j, k - 1, 0)
        v == IF neg THEN 0 - mag ELSE mag
    IN  IF k = j THEN [ok |-> FALSE, val |-> 0]
        ELSE IF v > IntMax \/ v < IntMin THEN [ok |-> FALSE, val |-> 0]
        ELSE [ok |-> TRUE, val |-> v]

\* One iteration of the parsing loop of setLogRule: the rules that the token
\* `rule` adds to rules_ (none or one).
ParseToken(rule) ==
    LET ruleItem == split(rule, "=")
    IN  IF Len(ruleItem) # 2 THEN <<>>
        ELSE LET level == stoi(ruleItem[2])
             IN  IF level.ok /\ validateLogLevel(level.val)
                 THEN <<[first |-> ruleItem[1], second |-> level.val]>>
                 ELSE <<>>

RECURSIVE ParseTokens(_)
ParseTokens(toks) ==
    IF toks = <<>> THEN <<>> ELSE ParseToken(Head(toks)) \o ParseTokens(Tail(toks))

\* The rule list that the parsing loop of setLogRule builds from ruleString.
ParseRules(ruleString) == ParseTokens(split(ruleString, ","))

\* -------------------------------------------------------------------- state

VARIABLES
    life,           \* per address: "none", "ctor" (constructor running),
                    \* "live", "dtor" (destructor running, d_ptr still valid)
    name_,          \* LogCategoryPrivate::name_
    level_,         \* LogCategoryPrivate::level_
    defaultLevel_,  \* LogCategoryPrivate::defaultLevel_
    categories_,    \* LogRegistry::categories_ (a set of addresses)
    rules_,         \* LogRegistry::rules_
    mutex_,         \* LogRegistry::mutex_: 0 when free, else the owning thread
    thread,         \* per thread: position and locals of the call it is in
    lastRule,       \* argument of the setLogRule call that returned last
    touchedFreed,   \* applyRule has dereferenced an address with no object
    given,          \* per address: the level its constructor was called with
    ret,            \* the most recent level query and its result
    aborted         \* std::abort() has been called

vars == <<life, name_, level_, defaultLevel_, categories_, rules_, mutex_,
          thread, lastRule, touchedFreed, given, ret, aborted>>

objVars == <<life, name_, level_, defaultLevel_>>
queryVars == <<ret, aborted>>

\* Category names and construction-time levels that clients use.
Names == {<<"a">>, <<"b">>}
DefaultLevels == {NoLog, Info}

\* Rule strings that clients pass to Log::setLogRule:
\* "", "*=2,a=4", "b=1" and "a=9,b".
RuleStrings ==
    { <<>>,
      <<"*", "=", "2", ",", "a", "=", "4">>,
      <<"b", "=", "1">>,
      <<"a", "=", "9", ",", "b">> }

\* A thread that is in no call.
Idle == [pc |-> "idle", op |-> "none", category |-> 0, ruleString |-> <<>>,
         rules |-> <<>>, rule |-> 0, pending |-> {}, l |-> NoLog]

NoQuery == [fn |-> "none", level |-> NoLog, threshold |-> NoLog,
            value |-> FALSE]

Goto(t, label) == thread' = [thread EXCEPT ![t].pc = label]

\* --------------------------------------------------------------- LogCategory

\* LogCategory::LogCategory(name, level), up to the call of registerCategory:
\* LogCategoryPrivate stores name and level, the level twice.
Construct(t, c, n, l) ==
    /\ thread[t].pc = "idle"
    /\ life[c] = "none"
    /\ life' = [life EXCEPT ![c] = "ctor"]
    /\ name_' = [name_ EXCEPT ![c] = n]
    /\ level_' = [level_ EXCEPT ![c] = l]
    /\ defaultLevel_' = [defaultLevel_ EXCEPT ![c] = l]
    /\ given' = [given EXCEPT ![c] = l]
    /\ thread' = [thread EXCEPT ![t] =
                    [Idle EXCEPT !.pc = "reg_lock", !.op = "ctor", !.category = c]]
    /\ UNCHANGED <<categories_, rules_, mutex_, lastRule, touchedFreed, queryVars>>

\* No thread is inside a call made directly on the object at c.
NotInUse(c) ==
    \A u \in Threads :
        ~(thread[u].op \in {"reg", "unreg", "set", "reset", "read"}
          /\ thread[u].category = c)

\* LogCategory::~LogCategory() is entered: its body calls unregisterCategory.
Destruct(t, c) ==
    /\ thread[t].pc = "idle"
    /\ life[c] = "live"
    /\ NotInUse(c)
    /\ life' = [life EXCEPT ![c] = "dtor"]
    /\ thread' = [thread EXCEPT ![t] =
                    [Idle EXCEPT !.pc = "unreg_lock", !.op = "dtor", !.category = c]]
    /\ UNCHANGED <<name_, level_, defaultLevel_, categories_, rules_, mutex_,
                   lastRule, touchedFreed, queryVars, given>>

\* After the destructor's body: d_ptr is destroyed and the storage released.
Teardown(t) ==
    /\ thread[t].pc = "teardown"
    /\ LET c == thread[t].category
       IN  /\ life' = [life EXCEPT ![c] = "none"]
           /\ name_' = [name_ EXCEPT ![c] = <<>>]
           /\ level_' = [level_ EXCEPT ![c] = NoLog]
           /\ defaultLevel_' = [defaultLevel_ EXCEPT ![c] = NoLog]
           /\ given' = [given EXCEPT ![c] = NoLog]
    /\ thread' = [thread EXCEPT ![t] = Idle]
    /\ UNCHANGED <<categories_, rules_, mutex_, lastRule, touchedFreed, queryVars>>

\* ------------------------------------------------- LogRegistry::applyRule

\* Variant: resetLogLevel() leaves level_ as it is.
ResetLevelKeeps(c) == level_[c]

\* category->resetLogLevel(): the value written to level_.
ResetLevel(c) == defaultLevel_[c]

\* rule.first == "*" || rule.first == category->name()
RuleMatches(r, c) == r.first = <<"*">> \/ r.first = name_[c]

\* Variant: a matching rule is applied only while no earlier rule has
\* changed the level (the first match wins).
LevelAfterRuleFirstWins(c, r) ==
    IF RuleMatches(r, c) /\ level_[c] = defaultLevel_[c] THEN r.second ELSE level_[c]

\* if (rule matches) category->setLogLevel(rule.second): level_ afterwards.
LevelAfterRule(c, r) == IF RuleMatches(r, c) THEN r.second ELSE level_[c]

\* applyRule, first statement: category->resetLogLevel().
ApplyReset(t) ==
    /\ thread[t].pc = "apply_reset"
    /\ LET c == thread[t].category
       IN  /\ level_' = [level_ EXCEPT ![c] = ResetLevel(c)]
           /\ touchedFreed' = (touchedFreed \/ life[c] = "none")
    /\ thread' = [thread EXCEPT ![t].pc = "apply_rule", ![t].rule = 1]
    /\ UNCHANGED <<life, name_, defaultLevel_, categories_, rules_, mutex_,
                   lastRule, queryVars, given>>

\* applyRule, one iteration of the loop over rules_, or its end.
ApplyRule(t) ==
    /\ thread[t].pc = "apply_rule"
    /\ LET c == thread[t].category
           i == thread[t].rule
       IN  IF i <= Len(rules_)
           THEN /\ level_' = [level_ EXCEPT ![c] = LevelAfterRule(c, rules_[i])]
                /\ touchedFreed' = (touchedFreed \/ life[c] = "none")
                /\ thread' = [thread EXCEPT ![t].rule = i + 1]
           ELSE /\ thread' = [thread EXCEPT
                                ![t].pc = IF thread[t].op = "slr"
                                          THEN "slr_loop" ELSE "reg_unlock",
                                ![t].rule = 0]
                /\ UNCHANGED <<level_, touchedFreed>>
    /\ UNCHANGED <<life, name_, defaultLevel_, categories_, rules_, mutex_,
                   lastRule, queryVars, given>>

\* ------------------------------------------------------------- LogRegistry

\* Variant: the method enters without waiting for the mutex to be free.
LockNoWait(t, from, to) ==
    /\ thread[t].pc = from
    /\ mutex_' = t
    /\ Goto(t, to)
    /\ UNCHANGED <<objVars, categories_, rules_, lastRule, touchedFreed, queryVars, given>>

\* std::lock_guard<std::mutex> lock(mutex_) at the head of a registry method.
Lock(t, from, to) ==
    /\ thread[t].pc = from
    /\ mutex_ = 0
    /\ mutex_' = t
    /\ Goto(t, to)
    /\ UNCHANGED <<objVars, categories_, rules_, lastRule, touchedFreed, queryVars, given>>

\* A call of registerCategory on a live object other than by its constructor.
CallRegister(t, c) ==
    /\ thread[t].pc = "idle"
    /\ life[c] = "live"
    /\ thread' = [thread EXCEPT ![t] =
                    [Idle EXCEPT !.pc = "reg_lock", !.op = "reg", !.category = c]]
    /\ UNCHANGED <<objVars, categories_, rules_, mutex_, lastRule, touchedFreed,
                   queryVars, given>>

RegLock(t) == Lock(t, "reg_lock", "reg_body")

\* Variant: registerCategory inserts the category and returns.
AfterInsertReturn == "reg_unlock"

\* Where registerCategory continues once it has inserted the category.
AfterInsert == "apply_reset"

\* Variant: the set is searched for a category of the same name.
AlreadyTrackedByName(c) == \E d \in categories_ : name_[d] = name_[c]

\* categories_.count(&category): the set holds this address.
AlreadyTracked(c) == c \in categories_

\* registerCategory: if (!categories_.count(&category)) { insert; applyRule }
RegBody(t) ==
    /\ thread[t].pc = "reg_body"
    /\ LET c == thread[t].category
       IN  IF AlreadyTracked(c)
           THEN /\ Goto(t, "reg_unlock")
                /\ UNCHANGED categories_
           ELSE /\ categories_' = categories_ \cup {c}
                /\ Goto(t, AfterInsert)
    /\ UNCHANGED <<objVars, rules_, mutex_, lastRule, touchedFreed, queryVars, given>>

\* Variant: the lock_guard leaves the mutex locked.
ReleasedNot == mutex_

\* ~lock_guard() at the end of a registry method: mutex_ afterwards.
Released == 0

\* registerCategory returns: the lock is released; a constructor that made
\* the call returns too, and the object is live.
RegUnlock(t) ==
    /\ thread[t].pc = "reg_unlock"
    /\ mutex_' = Released
    /\ life' = IF thread[t].op = "ctor"
               THEN [life EXCEPT ![thread[t].category] = "live"]
               ELSE life
    /\ thread' = [thread EXCEPT ![t] = Idle]
    /\ UNCHANGED <<name_, level_, defaultLevel_, categories_, rules_, lastRule,
                   touchedFreed, queryVars, given>>

\* A call of unregisterCategory on a live object other than by its destructor.
CallUnregister(t, c) ==
    /\ thread[t].pc = "idle"
    /\ life[c] = "live"
    /\ thread' = [thread EXCEPT ![t] =
                    [Idle EXCEPT !.pc = "unreg_lock", !.op = "unreg", !.category = c]]
    /\ UNCHANGED <<objVars, categories_, rules_, mutex_, lastRule, touchedFreed,
                   queryVars, given>>

UnregLock(t) == Lock(t, "unreg_lock", "unreg_body")

\* Variant: the category stays in the set.
ErasedNothing(c) == categories_

\* categories_.erase(&category): the set that is left.
Erased(c) == categories_ \ {c}

\* unregisterCategory: categories_.erase(&category)
UnregBody(t) ==
    /\ thread[t].pc = "unreg_body"
    /\ categories_' = Erased(thread[t].category)
    /\ Goto(t, "unreg_unlock")
    /\ UNCHANGED <<objVars, rules_, mutex_, lastRule, touchedFreed, queryVars, given>>

\* unregisterCategory returns; a destructor goes on to destroy its members.
UnregUnlock(t) ==
    /\ thread[t].pc = "unreg_unlock"
    /\ mutex_' = Released
    /\ thread' = IF thread[t].op = "dtor"
                 THEN [thread EXCEPT ![t].pc = "teardown"]
                 ELSE [thread EXCEPT ![t] = Idle]
    /\ UNCHANGED <<objVars, categories_, rules_, lastRule, touchedFreed, queryVars, given>>

\* Log::setLogRule(ruleString) is called.
SetLogRule(t, s) ==
    /\ thread[t].pc = "idle"
    /\ thread' = [thread EXCEPT ![t] =
                    [Idle EXCEPT !.pc = "slr_lock", !.op = "slr", !.ruleString = s]]
    /\ UNCHANGED <<objVars, categories_, rules_, mutex_, lastRule, touchedFreed,
                   queryVars, given>>

SlrLock(t) == Lock(t, "slr_lock", "slr_clear")

\* Variant: the previous rules stay in the list.
ClearedNothing == rules_

\* rules_.clear(): the list that is left.
Cleared == <<>>

\* setLogRule: rules_.clear(); auto rules = split(ruleString, ",")
SlrClear(t) ==
    /\ thread[t].pc = "slr_clear"
    /\ rules_' = Cleared
    /\ thread' = [thread EXCEPT ![t].pc = "slr_parse",
                                ![t].rules = split(thread[t].ruleString, ",")]
    /\ UNCHANGED <<objVars, categories_, mutex_, lastRule, touchedFreed, queryVars, given>>

\* Variant: the loop visits every object that exists, registered or not.
ApplyTargetsAllObjects == {c \in Slots : life[c] # "none"}

\* The categories that the loop after parsing visits: for (category : categories_)
ApplyTargets == categories_

\* setLogRule: one iteration of the loop over the tokens, or its end.
SlrParse(t) ==
    /\ thread[t].pc = "slr_parse"
    /\ IF thread[t].rules # <<>>
       THEN /\ rules_' = rules_ \o ParseToken(Head(thread[t].rules))
            /\ thread' = [thread EXCEPT ![t].rules = Tail(thread[t].rules)]
       ELSE /\ thread' = [thread EXCEPT ![t].pc = "slr_loop",
                                        ![t].pending = ApplyTargets]
            /\ UNCHANGED rules_
    /\ UNCHANGED <<objVars, categories_, mutex_, lastRule, touchedFreed, queryVars, given>>

\* setLogRule: the loop over categories_ picks the next category, in the
\* unspecified order of an unordered_set, or ends.
SlrLoop(t) ==
    /\ thread[t].pc = "slr_loop"
    /\ IF thread[t].pending # {}
       THEN \E c \in thread[t].pending :
                thread' = [thread EXCEPT ![t].pc = "apply_reset",
                                         ![t].category = c,
                                         ![t].pending = thread[t].pending \ {c}]
       ELSE thread' = [thread EXCEPT ![t].pc = "slr_unlock", ![t].category = 0]
    /\ UNCHANGED <<objVars, categories_, rules_, mutex_, lastRule, touchedFreed,
                   queryVars, given>>

\* setLogRule returns and releases the lock.
SlrUnlock(t) ==
    /\ thread[t].pc = "slr_unlock"
    /\ mutex_' = Released
    /\ lastRule' = thread[t].ruleString
    /\ thread' = [thread EXCEPT ![t] = Idle]
    /\ UNCHANGED <<objVars, categories_, rules_, touchedFreed, queryVars, given>>

\* --------------------------------------------------------- level queries

\* Variant: NoLog is compared like any other level.
checkLogLevelNoSentinel(threshold, l) == l <= threshold

\* LogCategory::checkLogLevel(l) on a category whose level_ is `threshold`.
checkLogLevel(threshold, l) == l # NoLog /\ l <= threshold

\* Variant: a suppressed Fatal check returns false like any other.
fatalWrapperNoAbort(threshold, level) ==
    [value |-> checkLogLevel(threshold, level), abort |-> FALSE]

\* LogCategory::fatalWrapper(level): the value returned, and whether
\* std::abort() is called instead of returning.
fatalWrapper(threshold, level) ==
    LET needLog == checkLogLevel(threshold, level)
    IN  [value |-> needLog, abort |-> (level = Fatal /\ ~needLog)]

\* A client calls checkLogLevel(l) on the live category at c.
CallCheckLogLevel(c, l) ==
    /\ ~aborted
    /\ life[c] = "live"
    /\ ret' = [fn |-> "checkLogLevel", level |-> l, threshold |-> level_[c],
               value |-> checkLogLevel(level_[c], l)]
    /\ UNCHANGED <<objVars, categories_, rules_, mutex_, thread, lastRule,
                   touchedFreed, given, aborted>>

\* A client calls fatalWrapper(l) on the live category at c.
CallFatalWrapper(c, l) ==
    /\ ~aborted
    /\ life[c] = "live"
    /\ LET r == fatalWrapper(level_[c], l)
       IN  /\ ret' = [fn |-> "fatalWrapper", level |-> l, threshold |-> level_[c],
                      value |-> r.value]
           /\ aborted' = r.abort
    /\ UNCHANGED <<objVars, categories_, rules_, mutex_, thread, lastRule,
                   touchedFreed, given>>

\* Variant: the process is aborted only when the category suppresses Fatal.
fatalWrapper2ByThreshold(threshold, level) ==
    [value |-> FALSE, abort |-> (level = Fatal /\ ~checkLogLevel(threshold, level))]

\* LogCategory::fatalWrapper2(level) on a category whose level_ is
\* `threshold`: if (level == LogLevel::Fatal) std::abort(); return false.
fatalWrapper2(threshold, level) ==
    [value |-> FALSE, abort |-> (level = Fatal)]

\* A client calls fatalWrapper2(l) on the live category at c.
CallFatalWrapper2(c, l) ==
    /\ ~aborted
    /\ life[c] = "live"
    /\ LET r == fatalWrapper2(level_[c], l)
       IN  /\ ret' = [fn |-> "fatalWrapper2", level |-> l, threshold |-> level_[c],
                      value |-> r.value]
           /\ aborted' = r.abort
    /\ UNCHANGED <<objVars, categories_, rules_, mutex_, thread, lastRule,
                   touchedFreed, given>>

\* A client calls setLogLevel(LogLevel l) on the live category at c.
CallSetLogLevel(c, l) ==
    /\ ~aborted
    /\ life[c] = "live"
    /\ level_' = [level_ EXCEPT ![c] = l]
    /\ UNCHANGED <<life, name_, defaultLevel_, categories_, rules_, mutex_, thread,
                   lastRule, touchedFreed, queryVars, given>>

\* ------------------------------------------- direct calls by client threads

\* Variant: the raw value is stored without being validated.
SetLevelRawUnchecked(c, l) == l

\* LogCategory::setLogLevel(std::underlying_type_t<LogLevel> l): level_ of
\* the category at c afterwards.
SetLevelRaw(c, l) == IF validateLogLevel(l) THEN l ELSE level_[c]

\* A client thread calls setLogLevel with the raw integer l on the live
\* category at c.
CallSetLogLevelRaw(t, c, l) ==
    /\ thread[t].pc = "idle"
    /\ life[c] = "live"
    /\ thread' = [thread EXCEPT ![t] =
                    [Idle EXCEPT !.pc = "set_raw", !.op = "set", !.category = c,
                                 !.l = l]]
    /\ UNCHANGED <<objVars, categories_, rules_, mutex_, lastRule, touchedFreed,
                   queryVars, given>>

\* A client thread calls setLogLevel with the enumerator l on the live
\* category at c.
CallSetLogLevelEnum(t, c, l) ==
    /\ thread[t].pc = "idle"
    /\ life[c] = "live"
    /\ thread' = [thread EXCEPT ![t] =
                    [Idle EXCEPT !.pc = "set_level", !.op = "set", !.category = c,
                                 !.l = l]]
    /\ UNCHANGED <<objVars, categories_, rules_, mutex_, lastRule, touchedFreed,
                   queryVars, given>>

\* A client thread calls resetLogLevel() on the live category at c.
CallResetLogLevel(t, c) ==
    /\ thread[t].pc = "idle"
    /\ life[c] = "live"
    /\ thread' = [thread EXCEPT ![t] =
                    [Idle EXCEPT !.pc = "reset_body", !.op = "reset",
                                 !.category = c]]
    /\ UNCHANGED <<objVars, categories_, rules_, mutex_, lastRule, touchedFreed,
                   queryVars, given>>

\* A client thread calls logLevel() on the live category at c.
CallLogLevel(t, c) ==
    /\ thread[t].pc = "idle"
    /\ life[c] = "live"
    /\ thread' = [thread EXCEPT ![t] =
                    [Idle EXCEPT !.pc = "read_body", !.op = "read",
                                 !.category = c]]
    /\ UNCHANGED <<objVars, categories_, rules_, mutex_, lastRule, touchedFreed,
                   queryVars, given>>

\* setLogLevel(raw): if (validateLogLevel(l)) setLogLevel(static_cast<LogLevel>(l)).
\* mutex_ is neither taken nor tested.
SetRawBody(t) ==
    /\ thread[t].pc = "set_raw"
    /\ LET c == thread[t].category
       IN  level_' = [level_ EXCEPT ![c] = SetLevelRaw(c, thread[t].l)]
    /\ Goto(t, "set_ret")
    /\ UNCHANGED <<life, name_, defaultLevel_, categories_, rules_, mutex_,
                   lastRule, touchedFreed, queryVars, given>>

\* setLogLevel(LogLevel l): d->level_ = l. mutex_ is neither taken nor tested.
SetLevelBody(t) ==
    /\ thread[t].pc = "set_level"
    /\ level_' = [level_ EXCEPT ![thread[t].category] = thread[t].l]
    /\ Goto(t, "set_ret")
    /\ UNCHANGED <<life, name_, defaultLevel_, categories_, rules_, mutex_,
                   lastRule, touchedFreed, queryVars, given>>

\* resetLogLevel(): d->level_ = d->defaultLevel_. mutex_ is neither taken nor
\* tested.
ResetBody(t) ==
    /\ thread[t].pc = "reset_body"
    /\ level_' = [level_ EXCEPT ![thread[t].category] = ResetLevel(thread[t].category)]
    /\ Goto(t, "reset_ret")
    /\ UNCHANGED <<life, name_, defaultLevel_, categories_, rules_, mutex_,
                   lastRule, touchedFreed, queryVars, given>>

\* logLevel(): return d->level_, read without taking mutex_.
ReadBody(t) ==
    /\ thread[t].pc = "read_body"
    /\ thread' = [thread EXCEPT ![t].pc = "read_ret",
                                ![t].l = level_[thread[t].category]]
    /\ UNCHANGED <<objVars, categories_, rules_, mutex_, lastRule, touchedFreed,
                   queryVars, given>>

\* A direct call returns to its caller.
DirectReturn(t) ==
    /\ thread[t].pc \in {"set_ret", "reset_ret", "read_ret"}
    /\ thread' = [thread EXCEPT ![t] = Idle]
    /\ UNCHANGED <<objVars, categories_, rules_, mutex_, lastRule, touchedFreed,
                   queryVars, given>>

\* ------------------------------------------------------------ specification

Init ==
    /\ life = [c \in Slots |-> "none"]
    /\ name_ = [c \in Slots |-> <<>>]
    /\ level_ = [c \in Slots |-> NoLog]
    /\ defaultLevel_ = [c \in Slots |-> NoLog]
    /\ categories_ = {}
    /\ rules_ = <<>>
    /\ mutex_ = 0
    /\ thread = [t \in Threads |-> Idle]
    /\ lastRule = <<>>
    /\ touchedFreed = FALSE
    /\ given = defaultLevel_
    /\ ret = NoQuery
    /\ aborted = FALSE

\* The steps of a thread inside a registry method.
RegistryStep(t) ==
    \/ RegLock(t) \/ RegBody(t) \/ RegUnlock(t)
    \/ UnregLock(t) \/ UnregBody(t) \/ UnregUnlock(t)
    \/ SlrLock(t) \/ SlrClear(t) \/ SlrParse(t) \/ SlrLoop(t) \/ SlrUnlock(t)
    \/ ApplyReset(t) \/ ApplyRule(t)

\* The thread of the single-threaded specification: the first one.
MainThread == CHOOSE t \in Threads : \A u \in Threads : t <= u

\* One thread constructs and destroys categories, sets rules and calls the
\* registry's methods on live categories, each call running to its end
\* before the next begins.
Next ==
    \E t \in {MainThread} :
        \/ \E c \in Slots, n \in Names, l \in DefaultLevels : Construct(t, c, n, l)
        \/ \E c \in Slots : Destruct(t, c)
        \/ Teardown(t)
        \/ \E c \in Slots : CallRegister(t, c)
        \/ \E c \in Slots : CallUnregister(t, c)
        \/ \E s \in RuleStrings : SetLogRule(t, s)
        \/ RegistryStep(t)

Spec == Init /\ [][Next]_vars

\* Inputs of the concurrent specification.
ConcLevels == {Info}
ConcRuleStrings ==
    { <<"*", "=", "2", ",", "a", "=", "4">>,
      <<"b", "=", "1">> }

\* Any number of threads construct and destroy categories and set rules, their
\* steps interleaved.
NextConc ==
    \E t \in Threads :
        \/ \E c \in Slots, n \in Names, l \in ConcLevels : Construct(t, c, n, l)
        \/ \E c \in Slots : Destruct(t, c)
        \/ Teardown(t)
        \/ \E s \in ConcRuleStrings : SetLogRule(t, s)
        \/ RegistryStep(t)

SpecConc == Init /\ [][NextConc]_vars

\* --------------------------------------- the registry and the direct calls

\* The raw integers passed to setLogLevel: NoLog's value and its predecessor,
\* both ends of the validated range and the first value above it.
RawLevels == {NoLog - 1, NoLog, Fatal, LastLogLevel, LastLogLevel + 1}

\* The steps of a thread inside setLogLevel or resetLogLevel.
DirectStep(t) ==
    \/ SetRawBody(t) \/ SetLevelBody(t) \/ ResetBody(t) \/ DirectReturn(t)

\* Inputs of this specification: every category has the same name, which the
\* first of the rule strings selects twice and the second not at all.
ApiNames == {<<"a">>}
ApiRuleStrings == ConcRuleStrings
ApiLevels == {NoLog, Debug}

\* One thread constructs, registers, unregisters and destroys categories, sets
\* rules, and sets and resets levels directly, each call running to its end
\* before the next begins.
NextApi ==
    \E t \in {MainThread} :
        \/ \E c \in Slots, n \in ApiNames, l \in DefaultLevels : Construct(t, c, n, l)
        \/ \E c \in Slots : Destruct(t, c)
        \/ Teardown(t)
        \/ \E c \in Slots : CallRegister(t, c)
        \/ \E c \in Slots : CallUnregister(t, c)
        \/ \E s \in ApiRuleStrings : SetLogRule(t, s)
        \/ RegistryStep(t)
        \/ \E c \in Slots, l \in RawLevels : CallSetLogLevelRaw(t, c, l)
        \/ \E c \in Slots, l \in ApiLevels : CallSetLogLevelEnum(t, c, l)
        \/ \E c \in Slots : CallResetLogLevel(t, c)
        \/ DirectStep(t)

SpecApi == Init /\ [][NextApi]_vars

\* ------------------------------------------------- the threads, scheduled

\* Rule strings of this specification: the first token of the first string
\* makes std::stoi throw, its second token and the second string are kept.
FairRuleStrings ==
    { <<"a", "=", "b", ",", "*", "=", "2">>,
      <<"b", "=", "1">> }

NextFair ==
    \E t \in Threads :
        \/ \E c \in Slots, n \in ApiNames, l \in ConcLevels : Construct(t, c, n, l)
        \/ \E c \in Slots : Destruct(t, c)
        \/ Teardown(t)
        \/ \E s \in FairRuleStrings : SetLogRule(t, s)
        \/ RegistryStep(t)

\* A thread blocked in the constructor of a lock_guard takes the mutex.
LockStep(t) == RegLock(t) \/ UnregLock(t) \/ SlrLock(t)

\* A thread holding the mutex executes the next statement of its method.
HolderStep(t) ==
    \/ RegBody(t) \/ RegUnlock(t)
    \/ UnregBody(t) \/ UnregUnlock(t)
    \/ SlrClear(t) \/ SlrParse(t) \/ SlrLoop(t) \/ SlrUnlock(t)
    \/ ApplyReset(t) \/ ApplyRule(t)

\* The threads of NextFair under a fair scheduler: a thread that can run does
\* run, and a thread that is again and again able to take the mutex takes it.
SpecFair ==
    /\ Init
    /\ [][NextFair]_vars
    /\ \A t \in Threads : WF_vars(HolderStep(t)) /\ SF_vars(LockStep(t))

\* ------------------------------------------ readers beside the registry

\* The steps of a thread inside logLevel().
ReadStep(t) == ReadBody(t) \/ DirectReturn(t)

\* The threads of NextConc also read the levels of live categories, without
\* the lock, at any point of the other threads' calls.
NextRead ==
    \/ NextConc
    \/ \E t \in Threads :
        \/ \E c \in Slots : CallLogLevel(t, c)
        \/ ReadStep(t)

SpecRead == Init /\ [][NextRead]_vars

\* ---------------------------------------------- the level queries alone

\* A category constructed with any level, before any rule is set.
InitQuery ==
    /\ \E l \in LogLevels :
         /\ level_ = [c \in Slots |-> IF c = 1 THEN l ELSE NoLog]
         /\ defaultLevel_ = [c \in Slots |-> IF c = 1 THEN l ELSE NoLog]
    /\ life = [c \in Slots |-> IF c = 1 THEN "live" ELSE "none"]
    /\ name_ = [c \in Slots |-> IF c = 1 THEN <<"a">> ELSE <<>>]
    /\ categories_ = {1}
    /\ rules_ = <<>>
    /\ mutex_ = 0
    /\ thread = [t \in Threads |-> Idle]
    /\ lastRule = <<>>
    /\ touchedFreed = FALSE
    /\ given = defaultLevel_
    /\ ret = NoQuery
    /\ aborted = FALSE

NextQuery ==
    \E c \in Slots, l \in LogLevels :
        \/ CallCheckLogLevel(c, l)
        \/ CallFatalWrapper(c, l)
        \/ CallFatalWrapper2(c, l)
        \/ CallSetLogLevel(c, l)

\* A client sets a category's level and queries it, until a query aborts.
SpecQuery == InitQuery /\ [][NextQuery]_vars

\* ------------------------------------------------------- the parser alone

\* The characters of the rule strings explored.
ParseAlphabet == {"a", "=", ",", "1", "9", "-"}

\* All strings over ParseAlphabet of at most MaxLen characters.
ParseStrings == UNION {[1..n -> ParseAlphabet] : n \in 0..MaxLen}

\* setLogRule(s) has just been called, for any string s, while one category
\* named "a" with default level Info is registered and no rule is set.
InitParse ==
    /\ life = [c \in Slots |-> IF c = 1 THEN "live" ELSE "none"]
    /\ name_ = [c \in Slots |-> IF c = 1 THEN <<"a">> ELSE <<>>]
    /\ level_ = [c \in Slots |-> IF c = 1 THEN Info ELSE NoLog]
    /\ defaultLevel_ = [c \in Slots |-> IF c = 1 THEN Info ELSE NoLog]
    /\ categories_ = {1}
    /\ rules_ = <<>>
    /\ mutex_ = 0
    /\ \E s \in ParseStrings :
         thread = [t \in Threads |->
                     IF t = MainThread
                     THEN [Idle EXCEPT !.pc = "slr_lock", !.op = "slr",
                                       !.ruleString = s]
                     ELSE Idle]
    /\ lastRule = <<>>
    /\ touchedFreed = FALSE
    /\ given = defaultLevel_
    /\ ret = NoQuery
    /\ aborted = FALSE

NextParse ==
    \/ SlrLock(MainThread)
    \/ SlrClear(MainThread)
    \/ SlrParse(MainThread)
    \/ SlrLoop(MainThread)
    \/ ApplyReset(MainThread)
    \/ ApplyRule(MainThread)
    \/ SlrUnlock(MainThread)

\* One call of setLogRule, from its entry to its return.
SpecParse == InitParse /\ [][NextParse]_vars

\* ================================================================ properties

\* What the rule language means, stated without reference to the loop of
\* applyRule: a pattern selects a name when it is the wildcard or the name.
Selects(pattern, n) == pattern = <<"*">> \/ pattern = n

\* The positions of the rules of rs that select the name n.
Selecting(rs, n) == {i \in 1..Len(rs) : Selects(rs[i].first, n)}

\* The last of a non-empty set of positions.
Last(I) == CHOOSE i \in I : \A j \in I : j <= i

\* The threshold of a category named n with default d under the rule list rs.
DerivedLevel(rs, n, d) ==
    IF Selecting(rs, n) = {} THEN d ELSE rs[Last(Selecting(rs, n))].second

\* setLogRule is about to return in thread t (it still holds the lock).
Returning(t) == thread[t].pc = "slr_unlock"

\* No thread is inside the critical section of a registry method.
Quiescent ==
    \A t \in Threads :
        thread[t].pc \in {"idle", "reg_lock", "unreg_lock", "slr_lock", "teardown"}

\* C1: when setLogRule(s) returns, every tracked category selected by some
\* rule parsed from s has the level of the last such rule, in parsed order.
C1_LastMatchWins ==
    \A t \in Threads :
        Returning(t) =>
            LET rs == ParseRules(thread[t].ruleString)
            IN  \A c \in categories_ :
                    Selecting(rs, name_[c]) # {} =>
                        level_[c] = rs[Last(Selecting(rs, name_[c]))].second

\* C1 witness: setLogRule("*=2,a=4") returns with a category named a at
\* level 4 and a category named b at level 2.
C1_Witness ==
    \E t \in Threads :
        /\ Returning(t)
        /\ thread[t].ruleString = <<"*", "=", "2", ",", "a", "=", "4">>
        /\ \E c, d \in categories_ :
             /\ name_[c] = <<"a">> /\ level_[c] = 4
             /\ name_[d] = <<"b">> /\ level_[d] = 2

\* C2: when setLogRule(s2) returns, rules_ holds exactly the rules parsed
\* from s2, and every tracked category that none of them selects is at its
\* construction-time default, whatever the previous rule string was.
C2_ReplacedWholesale ==
    \A t \in Threads :
        Returning(t) =>
            LET rs == ParseRules(thread[t].ruleString)
            IN  /\ rules_ = rs
                /\ \A c \in categories_ :
                       Selecting(rs, name_[c]) = {} => level_[c] = defaultLevel_[c]

\* C2 witness: a second setLogRule returns, and a tracked category that the
\* previous rule string had moved off its default, and that the new string does
\* not select, is back at its default.
C2_Witness ==
    \E t \in Threads :
        /\ Returning(t)
        /\ \E c \in categories_ :
             /\ Selecting(ParseRules(lastRule), name_[c]) # {}
             /\ DerivedLevel(ParseRules(lastRule), name_[c], defaultLevel_[c])
                    # defaultLevel_[c]
             /\ Selecting(ParseRules(thread[t].ruleString), name_[c]) = {}
             /\ level_[c] = defaultLevel_[c]

\* C3: when the constructor's registerCategory call returns, the new category
\* has the level derived from the rule string set last: the level of the last
\* rule selecting its name, or the constructor's level when none does.
C3_RulesAtConstruction ==
    \A t \in Threads :
        (thread[t].pc = "reg_unlock" /\ thread[t].op = "ctor") =>
            LET c == thread[t].category
            IN  level_[c] = DerivedLevel(ParseRules(lastRule), name_[c],
                                         defaultLevel_[c])

\* C3 witness: a constructor returns with a level that a rule set earlier
\* gave it, different from the level passed to the constructor.
C3_Witness ==
    \E t \in Threads :
        /\ thread[t].pc = "reg_unlock" /\ thread[t].op = "ctor"
        /\ lastRule # <<>>
        /\ level_[thread[t].category] # defaultLevel_[thread[t].category]

\* C4: whenever no thread is inside a registry method, every tracked category
\* has the level derived from the rule string of the setLogRule call that
\* returned last, and rules_ is the parse of that string.
C4_LastRuleGeneration ==
    Quiescent =>
        /\ rules_ = ParseRules(lastRule)
        /\ \A c \in categories_ :
               level_[c] = DerivedLevel(ParseRules(lastRule), name_[c],
                                        defaultLevel_[c])

\* C4 witness: no thread is inside a registry method, two threads wait to run
\* setLogRule with different strings, and a tracked category is at a level that
\* the last rule string gave it.
C4_Witness ==
    /\ Quiescent
    /\ lastRule # <<>>
    /\ \E c \in categories_ : level_[c] # defaultLevel_[c]
    /\ \E t, u \in Threads :
         /\ thread[t].pc = "slr_lock" /\ thread[u].pc = "slr_lock"
         /\ thread[t].ruleString # thread[u].ruleString

\* C5: applyRule never touches an address whose object is gone or whose
\* destructor has left unregisterCategory, and every tracked address holds an
\* object.
C5_NoApplyAfterTeardown ==
    /\ ~touchedFreed
    /\ \A c \in categories_ : life[c] # "none"
    /\ \A t \in Threads :
           thread[t].pc \in {"apply_reset", "apply_rule"} =>
               /\ life[thread[t].category] # "none"
               /\ \A u \in Threads :
                      ~(thread[u].pc \in {"unreg_unlock", "teardown"}
                        /\ thread[u].category = thread[t].category)

\* C5 witness: a destructor waits for the registry lock while the apply pass of
\* setLogRule in another thread is working on the same category.
C5_Witness ==
    \E t, u \in Threads :
        /\ thread[t].pc \in {"apply_reset", "apply_rule"} /\ thread[t].op = "slr"
        /\ thread[u].pc = "unreg_lock" /\ thread[u].op = "dtor"
        /\ thread[u].category = thread[t].category

\* C6: a step of setLogRule changes neither the level of an object that is not
\* tracked nor its absence from the tracked set; and the erase of
\* unregisterCategory on a category that is not tracked changes nothing.
C6_UnregisteredUntouched ==
    [][ /\ \A c \in Slots :
             ( /\ life[c] # "none" /\ c \notin categories_
               /\ \E t \in Threads : thread[t].op = "slr" /\ thread'[t] # thread[t] )
             => (level_'[c] = level_[c] /\ c \notin categories_')
        /\ \A t \in Threads :
             ( /\ thread[t].pc = "unreg_body" /\ thread'[t].pc = "unreg_unlock"
               /\ thread[t].category \notin categories_ )
             => UNCHANGED <<objVars, categories_, rules_, touchedFreed, queryVars, given>>
      ]_vars

\* C6 witness: unregisterCategory runs a second time on a category that is no
\* longer tracked, and that a setLogRule call since its first unregistration
\* has left at a level other than the one the rules would give it.
C6_Witness ==
    \E t \in Threads :
        /\ thread[t].pc = "unreg_body"
        /\ thread[t].category \notin categories_
        /\ LET c == thread[t].category
           IN  level_[c] # DerivedLevel(ParseRules(lastRule), name_[c],
                                        defaultLevel_[c])

\* The text of an integer: an optional sign, then digits and nothing else.
IsIntegerText(str) ==
    LET digits == IF Len(str) > 0 /\ str[1] \in {"+", "-"} THEN Tail(str) ELSE str
    IN  Len(digits) > 0 /\ \A i \in 1..Len(digits) : IsDigit(digits[i])

RECURSIVE Pow10(_)
Pow10(n) == IF n = 0 THEN 1 ELSE 10 * Pow10(n - 1)

RECURSIVE PlaceSum(_, _)
PlaceSum(digits, i) ==
    IF i > Len(digits) THEN 0
    ELSE DigitVal(digits[i]) * Pow10(Len(digits) - i) + PlaceSum(digits, i + 1)

\* The integer that an integer text denotes.
IntegerOf(str) ==
    IF str[1] = "-" THEN 0 - PlaceSum(Tail(str), 1)
    ELSE IF str[1] = "+" THEN PlaceSum(Tail(str), 1)
    ELSE PlaceSum(str, 1)

\* A token of the form pattern=integer with the integer in [0, LastLogLevel].
WellFormed(token) ==
    LET parts == split(token, "=")
    IN  /\ Len(parts) = 2
        /\ IsIntegerText(parts[2])
        /\ IntegerOf(parts[2]) \in 0..LastLogLevel

\* The rules that the well-formed tokens of a rule string denote, in order.
DeclaredRules(ruleString) ==
    LET kept == SelectSeq(split(ruleString, ","), WellFormed)
    IN  [i \in 1..Len(kept) |->
            [first |-> split(kept[i], "=")[1],
             second |-> IntegerOf(split(kept[i], "=")[2])]]

\* C7: when setLogRule(s) returns, rules_ holds exactly the tokens of s that
\* split on "=" into two parts the second of which is an integer in
\* [0, LastLogLevel], in their order; every other token is dropped.
C7_OnlyWellFormedTokens ==
    \A t \in Threads :
        Returning(t) => rules_ = DeclaredRules(thread[t].ruleString)

\* C8: when setLogRule returns from a string that yields no rule (the empty
\* string included), every tracked category is at its construction-time
\* default.
C8_NoRuleMeansDefault ==
    \A t \in Threads :
        (Returning(t) /\ ParseRules(thread[t].ruleString) = <<>>) =>
            \A c \in categories_ : level_[c] = defaultLevel_[c]

\* C8 witness: setLogRule returns from a non-empty string none of whose tokens
\* is a rule, and a tracked category that the previous rules held off its
\* default is at its default.
C8_Witness ==
    \E t \in Threads :
        /\ Returning(t)
        /\ thread[t].ruleString # <<>>
        /\ ParseRules(thread[t].ruleString) = <<>>
        /\ \E c \in categories_ :
             /\ DerivedLevel(ParseRules(lastRule), name_[c], defaultLevel_[c])
                    # defaultLevel_[c]
             /\ level_[c] = defaultLevel_[c]

\* The levels that a category with the given threshold lets through: the real
\* levels up to the threshold in rank, and never NoLog.
Enabled(threshold) ==
    CASE threshold = NoLog -> {}
      [] threshold = Fatal -> {Fatal}
      [] threshold = Error -> {Fatal, Error}
      [] threshold = Warn  -> {Fatal, Error, Warn}
      [] threshold = Info  -> {Fatal, Error, Warn, Info}
      [] threshold = Debug -> {Fatal, Error, Warn, Info, Debug}

\* C9: checkLogLevel(L) under threshold T returns true exactly when L is a
\* real level whose rank is at most that of T; it is false for NoLog.
C9_CheckLogLevel ==
    ret.fn = "checkLogLevel" =>
        /\ ret.value = (ret.level \in Enabled(ret.threshold))
        /\ (ret.level = NoLog => ret.value = FALSE)

\* C9 witness: a NoLog check has been answered under the most verbose threshold.
C9_Witness ==
    ret.fn = "checkLogLevel" /\ ret.level = NoLog /\ ret.threshold = Debug

\* C10: fatalWrapper(Fatal) returns true or aborts; for any other level it
\* does not abort and returns what checkLogLevel returns.
C10_FatalNeverDropped ==
    ret.fn = "fatalWrapper" =>
        /\ ret.level = Fatal => (aborted \/ ret.value = TRUE)
        /\ ret.level # Fatal =>
               (~aborted /\ ret.value = (ret.level \in Enabled(ret.threshold)))

\* C10 witness: fatalWrapper(Fatal) on a category whose threshold suppresses
\* Fatal has aborted the process.
C10_Witness ==
    ret.fn = "fatalWrapper" /\ ret.level = Fatal /\ ret.threshold = NoLog /\ aborted

\* C11: resetLogLevel() leaves the category at exactly the level its
\* constructor was given, whatever setLogLevel calls and rule applications
\* came before; the remembered default of an object is that level from its
\* construction to its destruction, and no step changes it.
C11_ResetRestoresDefault ==
    [][ /\ \A c \in Slots :
             /\ life[c] # "none" => defaultLevel_[c] = given[c]
             /\ (life[c] # "none" /\ life'[c] # "none")
                    => defaultLevel_'[c] = defaultLevel_[c]
        /\ \A t \in Threads :
             (thread[t].pc = "reset_body" /\ thread'[t].pc = "reset_ret")
                => level_'[thread[t].category] = given[thread[t].category] ]_vars

\* C11 witness: resetLogLevel() has just put a tracked category back at its
\* construction-time level although the rules in force select another level
\* for it.
C11_Witness ==
    \E t \in Threads :
        LET c == thread[t].category
        IN  /\ thread[t].pc = "reset_ret"
            /\ c \in categories_
            /\ level_[c] = given[c]
            /\ DerivedLevel(rules_, name_[c], defaultLevel_[c]) # given[c]

\* C12: setLogLevel called with a raw integer outside [0, LastLogLevel] changes
\* neither any category's fields nor the registry; called with one inside the
\* range it makes that level the category's threshold and changes nothing else.
C12_RawLevelValidated ==
    [][ \A t \in Threads :
          (thread[t].pc = "set_raw" /\ thread'[t].pc = "set_ret") =>
              LET c == thread[t].category
                  l == thread[t].l
              IN  /\ (l < 0 \/ l > LastLogLevel) => level_' = level_
                  /\ (0 <= l /\ l <= LastLogLevel) =>
                         level_' = [level_ EXCEPT ![c] = l]
                  /\ UNCHANGED <<life, name_, defaultLevel_, categories_, rules_,
                                 mutex_>> ]_vars

\* C12 witness: setLogLevel has returned after being given the raw value of
\* NoLog, and the tracked category is still at a real level.
C12_Witness ==
    \E t \in Threads :
        LET c == thread[t].category
        IN  /\ thread[t].pc = "set_ret"
            /\ thread[t].l = NoLog
            /\ ~validateLogLevel(thread[t].l)
            /\ c \in categories_
            /\ level_[c] \in LogLevels \ {NoLog}

\* C13: NoLog is not a level that validateLogLevel accepts, so no rule kept by
\* the parser carries it, and while setLogRule runs a tracked category is at
\* NoLog only if NoLog is its construction-time default.
C13_NoLogNotFromRules ==
    /\ ~validateLogLevel(NoLog)
    /\ \A i \in 1..Len(rules_) : rules_[i].second # NoLog
    /\ \A t \in Threads :
         thread[t].op = "slr" =>
             \A c \in categories_ :
                 level_[c] = NoLog => defaultLevel_[c] = NoLog

\* C13 witness: setLogRule is returning from a string whose only token names
\* a tracked category and carries NoLog's integer value, and that category is
\* at its default, which is not NoLog.
C13_Witness ==
    \E t \in Threads :
        LET p == split(thread[t].ruleString, "=")
        IN  /\ Returning(t)
            /\ Len(p) = 2
            /\ \E c \in categories_ :
                 /\ p[1] = name_[c]
                 /\ level_[c] = defaultLevel_[c]
                 /\ level_[c] # NoLog
            /\ stoi(p[2]).ok
            /\ stoi(p[2]).val = NoLog

\* C14: every step that changes the threshold of an existing category is taken
\* by a thread that holds mutex_ while it takes the step; this covers the
\* passes of applyRule and the direct calls of setLogLevel and resetLogLevel.
C14_WritesUnderLock ==
    [][ \A c \in Slots :
          (life[c] # "none" /\ life'[c] # "none" /\ level_'[c] # level_[c]) =>
              \E t \in Threads : mutex_ = t /\ thread'[t] # thread[t] ]_vars

\* C15: a logLevel() that reads a tracked category while another thread is
\* inside setLogRule returns either the level the category had when that call
\* took the lock (the level derived from the rules of the last call returned)
\* or the level the call leaves it at (derived from the call's own string).
C15_ReaderSeesGeneration ==
    [][ \A t \in Threads :
          (thread[t].pc = "read_body" /\ thread'[t].pc = "read_ret") =>
              LET c == thread[t].category
              IN  \A u \in Threads :
                      (thread[u].op = "slr" /\ mutex_ = u /\ c \in categories_) =>
                          thread'[t].l \in
                              { DerivedLevel(ParseRules(lastRule), name_[c],
                                             defaultLevel_[c]),
                                DerivedLevel(ParseRules(thread[u].ruleString),
                                             name_[c], defaultLevel_[c]) } ]_vars

\* C16: while a thread is inside applyRule, rules_ is a complete parse: of the
\* string of the setLogRule call that runs the pass, or, for the pass of
\* registerCategory, of the string of the last setLogRule call returned (the
\* empty list when there is none).
C16_ApplyReadsCompleteRules ==
    \A t \in Threads :
        thread[t].pc \in {"apply_reset", "apply_rule"} =>
            rules_ = ParseRules(IF thread[t].op = "slr"
                                THEN thread[t].ruleString
                                ELSE lastRule)

\* C16 witness: a constructor is applying a non-empty rule list to its new
\* category while another thread has called setLogRule and waits for the lock.
C16_Witness ==
    \E t, u \in Threads :
        /\ thread[t].pc = "apply_rule"
        /\ thread[t].op = "ctor"
        /\ rules_ # <<>>
        /\ thread[u].pc = "slr_lock"
        /\ thread[u].ruleString # lastRule

\* C17: registerCategory on a category already tracked goes straight to its
\* return and changes neither the tracked set, nor the rules, nor any
\* category's fields; on a category not tracked it adds exactly that address,
\* whatever the names of the categories already tracked; and when setLogRule
\* returns, every tracked category has the level the rules derive for its
\* name, so categories sharing a name each receive the rules that select it.
C17_RegisteredByIdentity ==
    [][ /\ \A t \in Threads :
             (thread[t].pc = "reg_body" /\ thread'[t].pc # "reg_body") =>
                 LET c == thread[t].category
                 IN  IF c \in categories_
                     THEN /\ thread'[t].pc = "reg_unlock"
                          /\ UNCHANGED <<objVars, categories_, rules_>>
                     ELSE categories_' = categories_ \cup {c}
        /\ \A t \in Threads :
             Returning(t) =>
                 \A c \in categories_ :
                     level_[c] = DerivedLevel(rules_, name_[c], defaultLevel_[c])
      ]_vars

\* C17 witness: registerCategory is returning from a call on a category that
\* was already tracked and is still at a level set directly, not the one the
\* rules derive, while a second tracked category has the same name.
C17_Witness ==
    \E t \in Threads :
        LET c == thread[t].category
        IN  /\ thread[t].pc = "reg_unlock"
            /\ thread[t].op = "reg"
            /\ c \in categories_
            /\ level_[c] # DerivedLevel(rules_, name_[c], defaultLevel_[c])
            /\ \E d \in categories_ : d # c /\ name_[d] = name_[c]
            /\ rules_ # <<>>

\* C18: a call of fatalWrapper2(level) aborts the process exactly when level
\* is Fatal, whatever the category's threshold; for any other level it returns
\* false; and in both cases it changes neither a category nor the registry.
C18_FatalWrapper2 ==
    [][ (ret' # ret /\ ret'.fn = "fatalWrapper2") =>
            /\ aborted' = (ret'.level = Fatal)
            /\ ret'.level # Fatal => ret'.value = FALSE
            /\ UNCHANGED <<objVars, categories_, rules_, mutex_, thread>> ]_vars

\* C18 witness: fatalWrapper2(Fatal) has aborted the process on a category
\* whose threshold lets Fatal through.
C18_Witness ==
    /\ ret.fn = "fatalWrapper2"
    /\ ret.level = Fatal
    /\ checkLogLevel(ret.threshold, Fatal)
    /\ aborted

\* C19: in every reachable state the threshold of every existing category is
\* one of the enumerated levels, whatever constructions, setLogLevel calls
\* (raw integer or enumerator), resetLogLevel calls and setLogRule calls led
\* to the state.
C19_LevelIsEnumerated ==
    \A c \in Slots : life[c] # "none" => level_[c] \in LogLevels

\* C19 witness: setLogLevel has returned from a raw value above LastLogLevel
\* on a tracked category while a rule list is in force, and the category's
\* threshold is an enumerated level.
C19_Witness ==
    \E t \in Threads :
        LET c == thread[t].category
        IN  /\ thread[t].pc = "set_ret"
            /\ thread[t].l > LastLogLevel
            /\ c \in categories_
            /\ rules_ # <<>>
            /\ level_[c] \in LogLevels

\* The positions of a thread that has taken the mutex and not yet released it.
CriticalPcs ==
    {"reg_body", "reg_unlock", "unreg_body", "unreg_unlock",
     "slr_clear", "slr_parse", "slr_loop", "slr_unlock",
     "apply_reset", "apply_rule"}

\* The positions of a thread waiting to take the mutex.
LockPcs == {"reg_lock", "unreg_lock", "slr_lock"}

\* A token of the rule string s has two parts and std::stoi throws on the second.
HasUnparsableToken(s) ==
    \E i \in 1..Len(split(s, ",")) :
        LET p == split(split(s, ",")[i], "=")
        IN  Len(p) = 2 /\ ~stoi(p[2]).ok

====
